---------------------------- MODULE Spec2Model ----------------------------
(***************************************************************************)
(* A model of the log analyzer of src/src/logAnalyzer.tsx: the chunked     *)
(* read loop of handleFileUpload, parseLogLine, the per-record aggregation *)
(* (ipMap, apiMap, tpsMap, apiPerfMap, distributionMap, the running        *)
(* totals), the slow-request working set, and the summary that the handler *)
(* publishes through setLogs / setSummaryStats.                            *)
(*                                                                         *)
(* Representation.                                                         *)
(*  - A file is a sequence of "bytes".  The read loop looks at the content *)
(*    of a chunk only through split(/\r?\n/), so "\n" (NL) and "\r" (CR)   *)
(*    are bytes of their own, and every other byte of the model stands for *)
(*    a fixed piece of ASCII text that the loop moves around opaquely      *)
(*    (text concatenation is all that happens to it before a line is       *)
(*    complete).  The texts are listed at TokenText below; parseLogLine on *)
(*    a line is the result of REGEX.access / REGEX.sql / REGEX.sqlTime on  *)
(*    the concatenation of the texts of the line's bytes.                  *)
(*  - Times are integers in milliseconds (the code holds seconds as        *)
(*    floating point numbers; responseTime in the model is seconds*1000).  *)
(*  - A JavaScript object used as a map is a sequence of entries in        *)
(*    insertion order (the order Object.entries returns for the keys of    *)
(*    this model, none of which is an array index).                        *)
(*    The keys of the model are addresses, request paths, statement names  *)
(*    and timestamps: none is the name of a member of Object.prototype.    *)
(*  - null (responseTime) is NoTime.                                       *)
(*                                                                         *)
(* Specifications.                                                         *)
(*  - Spec: one call of handleFileUpload on any file of the model.         *)
(*  - SpecSeq: one call after the other.                                   *)
(*  - SpecConc: two calls that overlap, interleaving at the await of the   *)
(*    chunk read.                                                          *)
(*  - SpecView: one call and the controls of the detail table (threshold,  *)
(*    search term, sort column).                                           *)
(*  - SpecProbe: getRespBucket on its own.                                 *)
(***************************************************************************)
EXTENDS Integers, Sequences, FiniteSets, TLC

\* ------------------------------------------------------------------ bounds
\* Longest file, in bytes, of the byte-level inputs.
MaxFileLen == 4
\* Most lines of the line-structured inputs.
MaxLines == 3
\* Largest chunk size tried (the code's chunkSize is 2 MiB, line 144).
MaxChunk == 3
\* The cap of the slow-request working set (1000 in the code, lines 198
\* and 200), scaled down so that a run of MaxLines records fills it.
SlowCap == 2
\* Largest response time, in milliseconds, of the unbroken range given to
\* getRespBucket on its own.
MaxProbe == 120
\* The sizes of the top-N tables (lines 217, 222 and 242).
TopIpN == 10
TopApiN == 10
TopSlowN == 20
\* useState(200) of line 117, in milliseconds.
DefaultThreshold == 200

NoTime == -1

LogTypes == {"sql_logback", "nginx", "tomcat", "logback"}

\* ------------------------------------------------------------------ bytes
(***************************************************************************)
(* TokenText (documentation of what each byte stands for):                 *)
(*  NL  "\n"        CR  "\r"                                               *)
(*  Q1  [2024-01-01 10:03:00] DEBUG c.x.Mapper - [SQL_END]                 *)
(*          [com.x.UserMapper.selectA] [5ms]                               *)
(*  Q2  [2024-01-01 10:07:30] DEBUG c.x.Mapper - [SQL_END]                 *)
(*          [com.x.UserMapper.selectB] [250ms]                             *)
(*  Q3  DEBUG c.x.Mapper - done [SQL_END] [selectA] [5ms]                  *)
(*  A1  10.0.0.1 - - [01/Jan/2024:10:03:00 +0900] "GET /a?q=1 HTTP/1.1"    *)
(*          200 512 "-"                                                    *)
(*  A2  10.0.0.1 - - [01/Jan/2024:10:03:00 +0900] "GET /a HTTP/1.1"        *)
(*          200 512 0.005 "-"                                              *)
(*  A3  10.0.0.2 - - [02/Jan/2024] "POST /b HTTP/1.1" 500 - 850 "-"        *)
(*  A4  10.0.0.2 - - [01/Jan/2024:10:07:30 +0900] "GET /b?x=1 HTTP/1.1"    *)
(*          404 512 "-"                                                    *)
(***************************************************************************)
SqlTokens == {"Q1", "Q2", "Q3"}
AccessTokens == {"A1", "A2", "A3", "A4"}

\* A timestamp text, as the fields it splits into: the date d, the separator
\* sep between the date and the time (" " in a SQL trace, ":" in an access
\* log), hour, minute, second, and the zone z that follows a space.  h, m,
\* s = -1 and sep, z = "": the text has no such part.
Ts(d, sep, h, m, s, z) == [d |-> d, sep |-> sep, h |-> h, m |-> m, s |-> s, z |-> z]
\* The text "Unknown" (line 58, line 47).
UnknownTs == Ts("Unknown", "", -1, -1, -1, "")

\* What REGEX.sqlTime (line 19) finds in the text of a byte: a sequence of
\* zero or one timestamps.
SqlTimeOf(b) ==
  CASE b = "Q1" -> <<Ts("2024-01-01", " ", 10, 3, 0, "")>>
    [] b = "Q2" -> <<Ts("2024-01-01", " ", 10, 7, 30, "")>>
    [] OTHER -> <<>>

\* Groups 1 and 2 of REGEX.sql (line 18) in the text of a SQL byte: the
\* bracketed statement name as its dot-separated segments, and the duration.
SqlFieldsOf(b) ==
  CASE b = "Q1" -> [stmt |-> <<"com", "x", "UserMapper", "selectA">>, ms |-> 5]
    [] b = "Q2" -> [stmt |-> <<"com", "x", "UserMapper", "selectB">>, ms |-> 250]
    [] OTHER -> [stmt |-> <<"selectA">>, ms |-> 5]

\* The groups of REGEX.access (line 17) in the text of an access byte.  path
\* is the request target up to its first "?", query whether a "?" follows;
\* respTime is the trailing field times 1000, NoTime when the text has none.
AccessFieldsOf(b) ==
  CASE b = "A1" -> [ip |-> "10.0.0.1", timestamp |-> Ts("01/Jan/2024", ":", 10, 3, 0, "+0900"),
                    method |-> "GET", path |-> "/a", query |-> TRUE,
                    status |-> 200, respTime |-> NoTime]
    [] b = "A2" -> [ip |-> "10.0.0.1", timestamp |-> Ts("01/Jan/2024", ":", 10, 3, 0, "+0900"),
                    method |-> "GET", path |-> "/a", query |-> FALSE,
                    status |-> 200, respTime |-> 5]
    [] b = "A3" -> [ip |-> "10.0.0.2", timestamp |-> Ts("02/Jan/2024", "", -1, -1, -1, ""),
                    method |-> "POST", path |-> "/b", query |-> FALSE,
                    status |-> 500, respTime |-> 850000]
    [] OTHER -> [ip |-> "10.0.0.2", timestamp |-> Ts("01/Jan/2024", ":", 10, 7, 30, "+0900"),
                    method |-> "GET", path |-> "/b", query |-> TRUE,
                    status |-> 404, respTime |-> NoTime]

\* ------------------------------------------------------------ sequences
Last(s) == s[Len(s)]
Front(s) == SubSeq(s, 1, Len(s) - 1)
Min2(a, b) == IF a < b THEN a ELSE b

RECURSIVE SeqSum(_)
SeqSum(s) == IF s = <<>> THEN 0 ELSE Head(s) + SeqSum(Tail(s))

\* Array.prototype.findIndex, given for each element whether it passes the
\* test: the first index (1-based) that passes, 0 when none does (-1 in the
\* code).
FirstIndex(passes) ==
  IF \E i \in 1..Len(passes) : passes[i]
  THEN CHOOSE i \in 1..Len(passes) : passes[i] /\ \A j \in 1..(i - 1) : ~passes[j]
  ELSE 0

\* The index x put into the sorted sequence of indices perm behind every
\* index it does not come before.  before[i][j] is "the comparator is
\* negative on elements i and j".
InsertSorted(perm, x, before) ==
  LET keep == {j \in 1..Len(perm) : ~before[x][perm[j]]}
      p == IF keep = {} THEN 0 ELSE CHOOSE j \in keep : \A k \in keep : k <= j
  IN SubSeq(perm, 1, p) \o <<x>> \o SubSeq(perm, p + 1, Len(perm))

\* A stable sort, as Array.prototype.sort is.
StableSort(s, before) ==
  LET F[i \in 0..Len(s)] == IF i = 0 THEN <<>> ELSE InsertSorted(F[i - 1], i, before)
  IN [k \in 1..Len(s) |-> s[F[Len(s)][k]]]

\* Array.prototype.slice(0, n).
Slice0(s, n) == SubSeq(s, 1, Min2(n, Len(s)))

\* ------------------------------------------------------- pure functions
\* getRespBucket with closed upper bounds: a value on a bound stays below it.
getRespBucketClosed(timeInSec) ==
  LET ms == timeInSec
  IN IF ms <= 10 THEN "b10ms"
     ELSE IF ms <= 100 THEN "b100ms"
     ELSE IF ms <= 500 THEN "b500ms"
     ELSE IF ms <= 1000 THEN "b1000ms"
     ELSE IF ms <= 5000 THEN "b5s"
     ELSE IF ms <= 10000 THEN "b10s"
     ELSE "bOver10s"

\* getRespBucket, lines 22-31.  timeInSec * 1000 (line 23) is the model's
\* millisecond value itself.
getRespBucket(timeInSec) ==
  LET ms == timeInSec
  IN IF ms < 10 THEN "b10ms"
     ELSE IF ms < 100 THEN "b100ms"
     ELSE IF ms < 500 THEN "b500ms"
     ELSE IF ms < 1000 THEN "b1000ms"
     ELSE IF ms < 5000 THEN "b5s"
     ELSE IF ms < 10000 THEN "b10s"
     ELSE "bOver10s"

BUCKET_KEYS == <<"b10ms", "b100ms", "b500ms", "b1000ms", "b5s", "b10s", "bOver10s">>

\* Math.floor(parseInt(m) / 5) * 5 (lines 38 and 44); NaN (-1) for a missing
\* minute field.
BucketMinute(m) == IF m = -1 THEN -1 ELSE (m \div 5) * 5

\* get5MinKey, lines 33-48: the key text `${date} ${h}:${bucketM}` as its
\* fields.  In the SQL branch a text with no space has no time part and
\* time.split throws: the catch returns "Unknown".  In the access branch
\* missing fields give the text "<date> undefined:NaN" (h = m = -1).
get5MinKey(rawTime, type) ==
  IF type = "sql_logback"
  THEN IF rawTime.sep = " " /\ rawTime.h # -1
       THEN [d |-> rawTime.d, h |-> rawTime.h, m |-> BucketMinute(rawTime.m)]
       ELSE [d |-> "Unknown", h |-> -1, m |-> -1]
  ELSE [d |-> rawTime.d, h |-> rawTime.h, m |-> BucketMinute(rawTime.m)]

\* parseLogLine, lines 50-81: a sequence of zero (null) or one record.  A
\* line is a sequence of bytes.  REGEX.sql is not anchored: its leftmost
\* match lies in the first SQL byte of the line; REGEX.sqlTime is searched
\* in the whole line on its own.  REGEX.access is anchored at the start of
\* the line, so the line must begin with an access byte, and the match ends
\* inside that byte's text.
parseLogLine(line, type) ==
  IF type = "sql_logback"
  THEN LET sqlIdx == FirstIndex([i \in 1..Len(line) |-> line[i] \in SqlTokens])
           timeIdx == FirstIndex([i \in 1..Len(line) |-> SqlTimeOf(line[i]) # <<>>])
       IN IF sqlIdx = 0 THEN <<>>
          ELSE LET sqlMatch == SqlFieldsOf(line[sqlIdx])
               IN <<[ip |-> "N/A",
                     rawTimestamp |-> IF timeIdx # 0 THEN SqlTimeOf(line[timeIdx])[1]
                                      ELSE UnknownTs,
                     method |-> "SQL",
                     url |-> Last(sqlMatch.stmt),
                     status |-> 200,
                     responseTime |-> sqlMatch.ms]>>
  ELSE IF line = <<>> \/ Head(line) \notin AccessTokens THEN <<>>
       ELSE LET match == AccessFieldsOf(Head(line))
                respTime == match.respTime
                finalRespTime ==
                  IF type \in {"tomcat", "logback"} /\ respTime # NoTime
                     /\ respTime > 100 * 1000
                  THEN respTime \div 1000
                  ELSE respTime
            IN <<[ip |-> match.ip,
                  rawTimestamp |-> match.timestamp,
                  method |-> match.method,
                  url |-> match.path,
                  status |-> match.status,
                  responseTime |-> finalRespTime]>>

\* !line.trim() (line 159): the line holds white space only.  Of the bytes
\* of the model only CR is white space.
IsBlank(line) == \A i \in 1..Len(line) : line[i] = "CR"

\* String.prototype.split(/\r?\n/) (line 154): the text cut at every NL, a CR
\* right before the NL belonging to the terminator.
StripCR(seg) == IF seg # <<>> /\ Last(seg) = "CR" THEN Front(seg) ELSE seg

RECURSIVE SplitAcc(_, _, _)
SplitAcc(text, cur, acc) ==
  IF text = <<>> THEN Append(acc, cur)
  ELSE IF Head(text) = "NL" THEN SplitAcc(Tail(text), <<>>, Append(acc, StripCR(cur)))
  ELSE SplitAcc(Tail(text), Append(cur, Head(text)), acc)

SplitLines(text) == SplitAcc(text, <<>>, <<>>)

\* file.slice(offset, offset + chunkSize) (line 151), decoded (line 153):
\* the bytes of the model are ASCII, which TextDecoder maps one to one.
FileSlice(file, offset, chunkSize) ==
  SubSeq(file, offset + 1, Min2(offset + chunkSize, Len(file)))

\* ------------------------------------------------------------------ maps
HasKey(map, k) == \E i \in 1..Len(map) : map[i].k = k
IndexOfKey(map, k) == CHOOSE i \in 1..Len(map) : map[i].k = k

\* map[k] = (map[k] || 0) + 1 (lines 168, 169, 172).
MapInc(map, k) ==
  IF HasKey(map, k)
  THEN [map EXCEPT ![IndexOfKey(map, k)].n = @ + 1]
  ELSE Append(map, [k |-> k, n |-> 1])

ZeroBuckets == [b \in {BUCKET_KEYS[i] : i \in 1..7} |-> 0]

\* DistInc starting the row afresh on every record.
DistIncResetsRow(map, timeBucketKey, respBucket) ==
  LET m2 == IF HasKey(map, timeBucketKey)
            THEN [map EXCEPT ![IndexOfKey(map, timeBucketKey)].b = ZeroBuckets]
            ELSE Append(map, [k |-> timeBucketKey, b |-> ZeroBuckets])
  IN [m2 EXCEPT ![IndexOfKey(m2, timeBucketKey)].b[respBucket] = @ + 1]

\* Lines 180-183.
DistInc(map, timeBucketKey, respBucket) ==
  LET m2 == IF HasKey(map, timeBucketKey) THEN map
            ELSE Append(map, [k |-> timeBucketKey, b |-> ZeroBuckets])
  IN [m2 EXCEPT ![IndexOfKey(m2, timeBucketKey)].b[respBucket] = @ + 1]

\* Lines 185-187.
PerfAdd(map, url, responseTime) ==
  LET m2 == IF HasKey(map, url) THEN map
            ELSE Append(map, [k |-> url, total |-> 0, count |-> 0])
      i == IndexOfKey(m2, url)
  IN [m2 EXCEPT ![i].total = @ + responseTime, ![i].count = @ + 1]

\* ------------------------------------------------------- slow samples
\* Math.min(...slowSamples.map(s => s.responseTime)) (lines 201 and 206).
MinTime(samples) ==
  CHOOSE t \in {samples[i].responseTime : i \in 1..Len(samples)} :
    \A i \in 1..Len(samples) : t <= samples[i].responseTime

\* The element findIndex (line 204) looks for.
HoldsMin(s, minTime) == s.responseTime = minTime

\* Whether a record is admitted once the set is full (line 203).
Admits(responseTime, minTime) == responseTime > minTime

\* SlowSamplesStep pushing an admitted record instead of replacing a member.
SlowSamplesStepAppends(slowSamples, minTimeInSlowSamples, parsedItem) ==
  IF Len(slowSamples) < SlowCap
     \/ Admits(parsedItem.responseTime, minTimeInSlowSamples)
  THEN LET pushed == Append(slowSamples, parsedItem)
       IN [slowSamples |-> pushed,
           minTimeInSlowSamples |-> IF Len(pushed) >= SlowCap THEN MinTime(pushed)
                                    ELSE minTimeInSlowSamples]
  ELSE [slowSamples |-> slowSamples, minTimeInSlowSamples |-> minTimeInSlowSamples]

\* SlowSamplesStep keeping the tracked minimum it had when it replaces a
\* member.
SlowSamplesStepKeepsMin(slowSamples, minTimeInSlowSamples, parsedItem) ==
  IF Len(slowSamples) < SlowCap
  THEN LET pushed == Append(slowSamples, parsedItem)
       IN [slowSamples |-> pushed,
           minTimeInSlowSamples |-> IF Len(pushed) = SlowCap THEN MinTime(pushed)
                                    ELSE minTimeInSlowSamples]
  ELSE IF Admits(parsedItem.responseTime, minTimeInSlowSamples)
  THEN LET minIndex == FirstIndex([i \in 1..Len(slowSamples) |->
                                     HoldsMin(slowSamples[i], minTimeInSlowSamples)])
           replaced == IF minIndex = 0 THEN slowSamples
                       ELSE [slowSamples EXCEPT ![minIndex] = parsedItem]
       IN [slowSamples |-> replaced, minTimeInSlowSamples |-> minTimeInSlowSamples]
  ELSE [slowSamples |-> slowSamples, minTimeInSlowSamples |-> minTimeInSlowSamples]

\* Lines 198-207: the working set and the tracked minimum after parsedItem.
\* An index of -1 (no holder found) leaves the elements as they are.
SlowSamplesStep(slowSamples, minTimeInSlowSamples, parsedItem) ==
  IF Len(slowSamples) < SlowCap
  THEN LET pushed == Append(slowSamples, parsedItem)
       IN [slowSamples |-> pushed,
           minTimeInSlowSamples |-> IF Len(pushed) = SlowCap THEN MinTime(pushed)
                                    ELSE minTimeInSlowSamples]
  ELSE IF Admits(parsedItem.responseTime, minTimeInSlowSamples)
  THEN LET minIndex == FirstIndex([i \in 1..Len(slowSamples) |->
                                     HoldsMin(slowSamples[i], minTimeInSlowSamples)])
           replaced == IF minIndex = 0 THEN slowSamples
                       ELSE [slowSamples EXCEPT ![minIndex] = parsedItem]
       IN [slowSamples |-> replaced, minTimeInSlowSamples |-> MinTime(replaced)]
  ELSE [slowSamples |-> slowSamples, minTimeInSlowSamples |-> minTimeInSlowSamples]

\* ------------------------------------------------------------ the loop body
\* The locals of one handleFileUpload call before its loop (lines 130-148),
\* with the file, the log format the call closed over and its chunk size.
\* handed is not a local of the code: it records the lines given to
\* parseLogLine (line 161), in order.
NewRun(file, type, chunkSize) ==
  [pc |-> "await", file |-> file, type |-> type, chunkSize |-> chunkSize,
   offset |-> 0, leftover |-> <<>>, lines |-> <<>>,
   ipMap |-> <<>>, apiMap |-> <<>>, tpsMap |-> <<>>, apiPerfMap |-> <<>>,
   distributionMap |-> <<>>,
   errorCount |-> 0, totalRequests |-> 0, totalResponseTime |-> 0,
   responseTimeCount |-> 0,
   slowSamples |-> <<>>, minTimeInSlowSamples |-> 0,
   handed |-> <<>>]

IdleRun == [NewRun(<<>>, "sql_logback", 1) EXCEPT !.pc = "idle"]

\* Line 171: the rate-series key.  split(' ')[0] of an access timestamp is
\* the text before its zone.
TpsKey(rawTimestamp, type) ==
  IF type = "sql_logback" THEN rawTimestamp
  ELSE IF rawTimestamp.sep = " " /\ rawTimestamp.h # -1
       THEN [rawTimestamp EXCEPT !.sep = "", !.h = -1, !.m = -1, !.s = -1, !.z = ""]
       ELSE [rawTimestamp EXCEPT !.z = ""]

\* Lines 164-174: what every parsed record does.
CountRecord(st, parsed) ==
  [st EXCEPT
     !.totalRequests = @ + 1,
     !.ipMap = IF parsed.ip # "N/A" THEN MapInc(@, parsed.ip) ELSE @,
     !.apiMap = MapInc(@, parsed.url),
     !.tpsMap = MapInc(@, TpsKey(parsed.rawTimestamp, st.type)),
     !.errorCount = IF parsed.status >= 400 THEN @ + 1 ELSE @]

\* IsTimed taking null for a response time.
IsTimedAlways(parsed) == parsed.responseTime # NoTime \/ parsed.responseTime = NoTime

\* Line 176: whether the record carries a response time.
IsTimed(parsed) == parsed.responseTime # NoTime

\* Lines 177-207: what a record with a response time does on top of that.
\* st.totalRequests is already incremented (line 164 precedes line 193).
TimeRecord(st, parsed) ==
  LET timeBucketKey ==
        get5MinKey(parsed.rawTimestamp,
                   IF st.type = "sql_logback" THEN "sql_logback" ELSE "access")
      respBucket == getRespBucket(parsed.responseTime)
      parsedItem == [id |-> st.totalRequests, ip |-> parsed.ip,
                     rawTimestamp |-> parsed.rawTimestamp, method |-> parsed.method,
                     url |-> parsed.url, status |-> parsed.status,
                     responseTime |-> parsed.responseTime]
      slow == SlowSamplesStep(st.slowSamples, st.minTimeInSlowSamples, parsedItem)
  IN [st EXCEPT
        !.distributionMap = DistInc(@, timeBucketKey, respBucket),
        !.apiPerfMap = PerfAdd(@, parsed.url, parsed.responseTime),
        !.totalResponseTime = @ + parsed.responseTime,
        !.responseTimeCount = @ + 1,
        !.slowSamples = slow.slowSamples,
        !.minTimeInSlowSamples = slow.minTimeInSlowSamples]

\* Lines 164-208 for one parsed record.
Aggregate(st, parsed) ==
  LET counted == CountRecord(st, parsed)
  IN IF IsTimed(parsed) THEN TimeRecord(counted, parsed) ELSE counted

\* LineStep counting the request before it knows that the line parses.
LineStepCountsFirst(st, line) ==
  IF IsBlank(line) THEN st
  ELSE LET parsed == parseLogLine(line, st.type)
           given == [st EXCEPT !.handed = Append(@, line)]
       IN IF parsed = <<>> THEN [given EXCEPT !.totalRequests = @ + 1]
          ELSE Aggregate(given, parsed[1])

\* Lines 159-208 for one line of the chunk.
LineStep(st, line) ==
  IF IsBlank(line) THEN st
  ELSE LET parsed == parseLogLine(line, st.type)
           given == [st EXCEPT !.handed = Append(@, line)]
       IN IF parsed = <<>> THEN given ELSE Aggregate(given, parsed[1])

\* TakeChunk forgetting the withheld segment: the chunk text without leftover.
TakeChunkDropsLeftover(st) ==
  LET lines == SplitLines(FileSlice(st.file, st.offset, st.chunkSize))
  IN [st EXCEPT !.pc = "lines", !.lines = Front(lines), !.leftover = Last(lines)]

\* Lines 151-156: the chunk text, split; the last segment is withheld.
TakeChunk(st) ==
  LET chunk == st.leftover \o FileSlice(st.file, st.offset, st.chunkSize)
      lines == SplitLines(chunk)
  IN [st EXCEPT !.pc = "lines", !.lines = Front(lines), !.leftover = Last(lines)]

\* NextOffset stepping one byte too far.
NextOffsetSkips(st) == st.offset + st.chunkSize + 1

\* Line 211.
NextOffset(st) == st.offset + st.chunkSize

\* Math.round (line 212) of a non-negative quotient a / b.
RoundDiv(a, b) == (2 * a + b) \div (2 * b)

\* Line 212: the value given to setProgress.
ProgressValue(offset, size) == RoundDiv(offset * 100, size)

\* ------------------------------------------------------------ the summary
\* String.prototype.localeCompare on the key texts of this model (lines 244
\* and 247): the dates in collation order, then the zero-padded fields.
DateRank(d) ==
  CASE d = "01/Jan/2024" -> 1
    [] d = "02/Jan/2024" -> 2
    [] d = "2024-01-01" -> 3
    [] OTHER -> 4

KeyBefore(a, b) ==
  \/ DateRank(a.d) < DateRank(b.d)
  \/ /\ a.d = b.d
     /\ \/ a.h < b.h
        \/ a.h = b.h /\ a.m < b.m

TsBefore(a, b) ==
  \/ KeyBefore(a, b)
  \/ a.d = b.d /\ a.h = b.h /\ a.m = b.m /\ a.s < b.s

\* Line 215.
SortedSamples(slowSamples) ==
  StableSort(slowSamples,
             [i \in 1..Len(slowSamples) |-> [j \in 1..Len(slowSamples) |->
                slowSamples[j].responseTime - slowSamples[i].responseTime < 0]])

\* The comparator (a, b) => b[1] - a[1] of lines 217 and 221.
ByCountDesc(map) ==
  [i \in 1..Len(map) |-> [j \in 1..Len(map) |-> map[j].n - map[i].n < 0]]

\* Line 217.
TopIps(ipMap) ==
  LET top == Slice0(StableSort(ipMap, ByCountDesc(ipMap)), TopIpN)
  IN [i \in 1..Len(top) |-> [name |-> top[i].k, count |-> top[i].n]]

\* ApiAvgTime without its guard: total / count whatever the count.
ApiAvgTimeUnguarded(perf) == [na |-> FALSE, num |-> perf.total, den |-> perf.count]

\* Line 229: the mean of a row of topApis, as the fraction num / den; the
\* number 0 when the target has no timed record.  na tells an explicit "not
\* applicable" marker from a number: the code gives none here.
ApiAvgTime(perf) ==
  IF perf.count > 0 THEN [na |-> FALSE, num |-> perf.total, den |-> perf.count]
  ELSE [na |-> FALSE, num |-> 0, den |-> 1]

\* Lines 220-231.
TopApis(apiMap, apiPerfMap) ==
  LET top == Slice0(StableSort(apiMap, ByCountDesc(apiMap)), TopApiN)
      Perf(name) == IF HasKey(apiPerfMap, name)
                    THEN apiPerfMap[IndexOfKey(apiPerfMap, name)]
                    ELSE [k |-> name, total |-> 0, count |-> 0]
  IN [i \in 1..Len(top) |->
        [name |-> top[i].k, count |-> top[i].n,
         total |-> Perf(top[i].k).total,
         avgTime |-> ApiAvgTime(Perf(top[i].k))]]

\* Lines 234-242: avgTime is data.total / data.count, unguarded; the rows in
\* descending order of it (the fractions compared by cross-multiplication).
TopSlowApis(apiPerfMap) ==
  LET rows == [i \in 1..Len(apiPerfMap) |->
                 [name |-> apiPerfMap[i].k,
                  avgTime |-> [na |-> FALSE, num |-> apiPerfMap[i].total,
                               den |-> apiPerfMap[i].count],
                  count |-> apiPerfMap[i].count,
                  total |-> apiPerfMap[i].total]]
  IN Slice0(StableSort(rows,
                       [i \in 1..Len(rows) |-> [j \in 1..Len(rows) |->
                          rows[j].total * rows[i].count < rows[i].total * rows[j].count]]),
            TopSlowN)

\* Line 244: time.includes(' ') ? time.split(' ')[1] : time.
TpsLabel(time) ==
  IF time.sep = " " /\ time.h # -1 THEN [time EXCEPT !.d = "", !.sep = "", !.z = ""]
  ELSE time

TpsData(tpsMap) ==
  LET sorted == StableSort(tpsMap,
                           [i \in 1..Len(tpsMap) |-> [j \in 1..Len(tpsMap) |->
                              TsBefore(tpsMap[i].k, tpsMap[j].k)]])
  IN [i \in 1..Len(sorted) |-> [time |-> TpsLabel(sorted[i].k), tps |-> sorted[i].n]]

\* Lines 246-248.
DistributionStats(distributionMap) ==
  LET sorted == StableSort(distributionMap,
                           [i \in 1..Len(distributionMap) |->
                              [j \in 1..Len(distributionMap) |->
                                 KeyBefore(distributionMap[i].k, distributionMap[j].k)]])
  IN [i \in 1..Len(sorted) |-> [time |-> sorted[i].k, b |-> sorted[i].b]]

\* Line 262.
MaxTps(tpsData) ==
  IF Len(tpsData) > 0
  THEN CHOOSE n \in {tpsData[i].tps : i \in 1..Len(tpsData)} :
         \A i \in 1..Len(tpsData) : tpsData[i].tps <= n
  ELSE 0

\* Line 255: the percentage with two decimals, in hundredths; the number 0
\* when there is no request.
ErrorRate(errorCount, totalRequests) ==
  IF totalRequests > 0 THEN RoundDiv(errorCount * 100 * 100, totalRequests) ELSE 0

\* AvgResponseTime giving the number 0 when no record was timed.
AvgResponseTimeZero(totalResponseTime, responseTimeCount) ==
  IF responseTimeCount > 0
  THEN [na |-> FALSE, ms |-> RoundDiv(totalResponseTime, responseTimeCount)]
  ELSE [na |-> FALSE, ms |-> 0]

\* Line 256: the mean in seconds with three decimals, which is a whole number
\* of milliseconds; "N/A" (na) when no record was timed.
AvgResponseTime(totalResponseTime, responseTimeCount) ==
  IF responseTimeCount > 0
  THEN [na |-> FALSE, ms |-> RoundDiv(totalResponseTime, responseTimeCount)]
  ELSE [na |-> TRUE, ms |-> 0]

\* Lines 251-263: the object given to setSummaryStats.
Summary(st) ==
  [totalRequests |-> st.totalRequests,
   uniqueIps |-> Len(st.ipMap),
   uniqueApis |-> Len(st.apiMap),
   errorRate |-> ErrorRate(st.errorCount, st.totalRequests),
   avgResponseTime |-> AvgResponseTime(st.totalResponseTime, st.responseTimeCount),
   topIps |-> TopIps(st.ipMap),
   topApis |-> TopApis(st.apiMap, st.apiPerfMap),
   topSlowApis |-> TopSlowApis(st.apiPerfMap),
   tpsData |-> TpsData(st.tpsMap),
   distributionStats |-> DistributionStats(st.distributionMap),
   maxTps |-> MaxTps(TpsData(st.tpsMap))]

\* --------------------------------------------------------------- the table
\* The characters of the request targets of this model.
UrlChars(url) ==
  CASE url = "selectA" -> <<"s", "e", "l", "e", "c", "t", "A">>
    [] url = "selectB" -> <<"s", "e", "l", "e", "c", "t", "B">>
    [] url = "/a" -> <<"/", "a">>
    [] OTHER -> <<"/", "b">>

\* String.prototype.toLowerCase on the characters of this model.
ToLower(text) ==
  [i \in 1..Len(text) |-> CASE text[i] = "A" -> "a"
                             [] text[i] = "B" -> "b"
                             [] OTHER -> text[i]]

\* String.prototype.includes.
Includes(text, term) ==
  \E i \in 0..(Len(text) - Len(term)) : SubSeq(text, i + 1, i + Len(term)) = term

\* Line 278: the search filter; an empty term is falsy and filters nothing.
MatchesSearch(log, term) ==
  term = <<>> \/ Includes(ToLower(UrlChars(log.url)), ToLower(term))

\* ExceedsThreshold keeping a record whose time equals the threshold.
ExceedsOrMeetsThreshold(log, threshold) == log.responseTime >= threshold

\* Line 279: the threshold filter.  log.responseTime * 1000 of the code is
\* the model's responseTime, which is in milliseconds.
ExceedsThreshold(log, threshold) == log.responseTime > threshold

\* The < of lines 284-285 on the values of one column.  Texts compare by
\* code unit: "/" sorts before letters, digits before "U".
UrlRank(url) ==
  CASE url = "/a" -> 1
    [] url = "/b" -> 2
    [] url = "selectA" -> 3
    [] OTHER -> 4

ColumnLess(a, b, key) ==
  CASE key = "responseTime" -> a.responseTime < b.responseTime
    [] key = "url" -> UrlRank(a.url) < UrlRank(b.url)
    [] OTHER -> TsBefore(a.rawTimestamp, b.rawTimestamp)

\* The elements of s that pass, in order (Array.prototype.filter), given for
\* each element whether it passes.
FilterSeq(s, passes) ==
  LET F[i \in 0..Len(s)] ==
        IF i = 0 THEN <<>>
        ELSE IF passes[i] THEN Append(F[i - 1], s[i]) ELSE F[i - 1]
  IN F[Len(s)]

\* Lines 276-289: the rows of the detail table.
sortedAndFilteredLogs(ls, term, threshold, config) ==
  LET found == FilterSeq(ls, [i \in 1..Len(ls) |-> MatchesSearch(ls[i], term)])
      result == FilterSeq(found, [i \in 1..Len(found) |->
                                    ExceedsThreshold(found[i], threshold)])
  IN StableSort(result,
       [i \in 1..Len(result) |-> [j \in 1..Len(result) |->
          IF config.direction = "asc"
          THEN ColumnLess(result[i], result[j], config.key)
          ELSE ColumnLess(result[j], result[i], config.key)]])

\* Lines 268-274: the sort setting after a click on a column header.
SortAfterClick(config, key) ==
  [key |-> key,
   direction |-> IF config.key = key /\ config.direction = "asc" THEN "desc" ELSE "asc"]

\* ------------------------------------------------------------------ inputs
\* The byte-level inputs: every file of up to MaxFileLen bytes over line
\* terminators, one SQL trace text and one access log text.
ReaderBytes == {"NL", "CR", "Q1", "A2"}
ByteFiles == UNION {[1..n -> ReaderBytes] : n \in 0..MaxFileLen}

\* The line-structured inputs for a log format: up to MaxLines terminated
\* lines, each the text of a record of that format, a text of the other
\* format (which does not parse), or empty.
LineChoices(type) ==
  {<<"NL">>} \cup
  {<<b, "NL">> : b \in IF type = "sql_logback" THEN SqlTokens \cup {"A2"}
                       ELSE AccessTokens \cup {"Q1"}}

RECURSIVE Flatten(_)
Flatten(ls) == IF ls = <<>> THEN <<>> ELSE Head(ls) \o Flatten(Tail(ls))

LineFiles(type) ==
  {Flatten(ls) : ls \in UNION {[1..n -> LineChoices(type)] : n \in 0..MaxLines}}

\* The inputs of the specifications that follow the table controls or two
\* calls: up to MaxLines terminated record lines of the format.
RecordFiles(type) ==
  {Flatten(ls) : ls \in UNION {[1..n -> {<<b, "NL">> : b \in IF type = "sql_logback"
                                                            THEN SqlTokens
                                                            ELSE AccessTokens}]
                               : n \in 0..MaxLines}}

\* The inputs of overlapping calls: up to MaxLines - 1 terminated lines, each
\* one of two timed records of the format.
ConcFiles(type) ==
  {Flatten(ls) : ls \in UNION {[1..n -> {<<b, "NL">> : b \in IF type = "sql_logback"
                                                            THEN {"Q1", "Q2"}
                                                            ELSE {"A2", "A3"}}]
                               : n \in 0..(MaxLines - 1)}}

\* What the user types into the threshold field and the search field, and
\* the column headers that sort (lines 570, 579, 588).
Thresholds == {4, 5, 250}
SearchTerms == {<<>>, <<"B">>}
SortKeys == {"rawTimestamp", "url", "responseTime"}

Files(type) == ByteFiles \cup LineFiles(type)
ChunkSizes == 1..MaxChunk

\* ------------------------------------------------------------------- state
VARIABLES
  logType,        \* useState('sql_logback'), line 115
  isProcessing,   \* line 113
  progress,       \* line 114
  logs,           \* line 111
  summaryStats,   \* line 112: <<>> is null, <<s>> the object s
  searchTerm,     \* line 116
  responseTimeThreshold,  \* line 117, in milliseconds
  sortConfig,     \* line 119
  runs,           \* the locals of each handleFileUpload call
  probeTime,      \* an argument for getRespBucket, in milliseconds
  probeBucket     \* what getRespBucket returned for it, NoBucket before the call

vars == <<logType, isProcessing, progress, logs, summaryStats, searchTerm,
          responseTimeThreshold, sortConfig, runs, probeTime, probeBucket>>

\* The argument and result of the call of getRespBucket followed on its own.
probe == <<probeTime, probeBucket>>
NoBucket == "none"

\* What the table controls set and no upload reads.
filters == <<searchTerm, responseTimeThreshold>>

\* The calls of handleFileUpload that may be in progress together.  A call
\* that has ended gives its place to the next one.
RunIds == {1, 2}

Init ==
  /\ logType = "sql_logback"
  /\ isProcessing = FALSE
  /\ progress = 0
  /\ logs = <<>>
  /\ summaryStats = <<>>
  /\ searchTerm = <<>>
  /\ responseTimeThreshold = DefaultThreshold
  /\ sortConfig = [key |-> "responseTime", direction |-> "desc"]
  /\ runs = [r \in RunIds |-> IdleRun]
  /\ probeTime = 0
  /\ probeBucket = NoBucket

\* JavaScript runs one synchronous stretch at a time: an event handler or the
\* continuation of an await starts only when no call is between two awaits.
Quiescent == \A r \in RunIds : runs[r].pc # "lines"

\* The loop test giving up one byte early.
LoopStopsEarly(offset, size) == offset + 1 < size

\* Whether the loop goes on (line 150).
LoopContinues(offset, size) == offset < size

\* Lines 250-265: the handler's last synchronous stretch.
Publish(r, st) ==
  /\ logs' = SortedSamples(st.slowSamples)
  /\ summaryStats' = <<Summary(st)>>
  /\ isProcessing' = FALSE
  /\ sortConfig' = [key |-> "responseTime", direction |-> "desc"]
  /\ runs' = [runs EXCEPT ![r] = [st EXCEPT !.pc = "done"]]

\* The format buttons (line 331).  A call of handleFileUpload reads the
\* logType of the render it was created in, so a later change does not reach
\* a run in progress; the model lets the user choose before uploading.
SetLogType(t) ==
  /\ \A r \in RunIds : runs[r].pc = "idle"
  /\ logType' = t
  /\ UNCHANGED <<isProcessing, progress, logs, summaryStats, filters, sortConfig, runs, probe>>

\* handleFileUpload from its call to its first await (lines 121-152), or to
\* its end when the file is empty and the loop body never runs.
\* The user picks a file; the chunk size is the run's constant of line 144.
UploadFrom(r, files, chunkSizes) ==
  /\ runs[r].pc \in {"idle", "done"}
  /\ Quiescent
  /\ \E file \in files, chunkSize \in chunkSizes :
       LET st == NewRun(file, logType, chunkSize)
       IN IF LoopContinues(st.offset, Len(file))
          THEN /\ isProcessing' = TRUE
               /\ progress' = 0
               /\ logs' = <<>>
               /\ summaryStats' = <<>>
               /\ runs' = [runs EXCEPT ![r] = st]
               /\ UNCHANGED sortConfig
          ELSE /\ progress' = 0
               /\ Publish(r, st)
  /\ UNCHANGED <<logType, filters, probe>>

\* The first upload after the page has loaded, of any file of the model.
Upload(r) == runs[r].pc = "idle" /\ UploadFrom(r, Files(logType), ChunkSizes)

\* ChunkArrives with leftover kept outside the call: every call continues
\* the withheld segment of call 1.
ChunkArrivesSharesLeftover(r) ==
  /\ runs[r].pc = "await"
  /\ Quiescent
  /\ runs' = [runs EXCEPT ![r] = TakeChunk([@ EXCEPT !.leftover = runs[1].leftover])]
  /\ UNCHANGED <<logType, isProcessing, progress, logs, summaryStats, filters, sortConfig, probe>>

\* The await of line 152 returns: lines 153-156.
ChunkArrives(r) ==
  /\ runs[r].pc = "await"
  /\ Quiescent
  /\ runs' = [runs EXCEPT ![r] = TakeChunk(@)]
  /\ UNCHANGED <<logType, isProcessing, progress, logs, summaryStats, filters, sortConfig, probe>>

\* One turn of the for loop of line 158.
ProcessLine(r) ==
  /\ runs[r].pc = "lines"
  /\ runs[r].lines # <<>>
  /\ runs' = [runs EXCEPT ![r] =
                LineStep([@ EXCEPT !.lines = Tail(@)], Head(runs[r].lines))]
  /\ UNCHANGED <<logType, isProcessing, progress, logs, summaryStats, filters, sortConfig, probe>>

\* The for loop is over: lines 211-212, the loop test of line 150, and then
\* either the next await or lines 215-265.
EndChunk(r) ==
  /\ runs[r].pc = "lines"
  /\ runs[r].lines = <<>>
  /\ LET st == [runs[r] EXCEPT !.offset = NextOffset(runs[r])]
     IN /\ progress' = ProgressValue(st.offset, Len(st.file))
        /\ IF LoopContinues(st.offset, Len(st.file))
           THEN /\ runs' = [runs EXCEPT ![r] = [st EXCEPT !.pc = "await"]]
                /\ UNCHANGED <<isProcessing, logs, summaryStats, sortConfig>>
           ELSE Publish(r, st)
  /\ UNCHANGED <<logType, filters, probe>>

\* The threshold field (line 355).
SetResponseTimeThreshold(v) ==
  /\ Quiescent
  /\ responseTimeThreshold' = v
  /\ UNCHANGED <<logType, isProcessing, progress, logs, summaryStats, searchTerm,
                 sortConfig, runs, probe>>

\* The search field (line 559).
SetSearchTerm(term) ==
  /\ Quiescent
  /\ searchTerm' = term
  /\ UNCHANGED <<logType, isProcessing, progress, logs, summaryStats,
                 responseTimeThreshold, sortConfig, runs, probe>>

\* handleSort (lines 268-274), from a column header.
handleSort(key) ==
  /\ Quiescent
  /\ sortConfig' = SortAfterClick(sortConfig, key)
  /\ UNCHANGED <<logType, isProcessing, progress, logs, summaryStats, filters, runs, probe>>

Next ==
  \/ \E t \in LogTypes : SetLogType(t)
  \/ Upload(1)
  \/ ChunkArrives(1)
  \/ ProcessLine(1)
  \/ EndChunk(1)

Spec == Init /\ [][Next]_vars

\* getRespBucket on its own: any response time of the range below, classified
\* once.
ProbeTimes ==
  0..MaxProbe \cup
  UNION {{b - 1, b, b + 1} : b \in {10, 100, 500, 1000, 5000, 10000}}

InitProbe ==
  /\ logType = "sql_logback"
  /\ isProcessing = FALSE
  /\ progress = 0
  /\ logs = <<>>
  /\ summaryStats = <<>>
  /\ searchTerm = <<>>
  /\ responseTimeThreshold = DefaultThreshold
  /\ sortConfig = [key |-> "responseTime", direction |-> "desc"]
  /\ runs = [r \in RunIds |-> IdleRun]
  /\ probeTime \in ProbeTimes
  /\ probeBucket = NoBucket

CallGetRespBucket ==
  /\ probeBucket = NoBucket
  /\ probeBucket' = getRespBucket(probeTime)
  /\ UNCHANGED <<logType, isProcessing, progress, logs, summaryStats, filters,
                 sortConfig, runs, probeTime>>

NextProbe == CallGetRespBucket

SpecProbe == InitProbe /\ [][NextProbe]_vars

\* Two calls of handleFileUpload: the file input stays enabled while a file
\* is processed (line 346), so the user may pick a second file while the
\* first call waits for a chunk.  Call 2 is the later one.  The files are SQL
\* traces or, after a click on the nginx button, access logs; a chunk is one
\* byte or MaxChunk bytes.
NextConc ==
  \/ SetLogType("nginx")
  \/ runs[1].pc = "idle" /\ UploadFrom(1, ConcFiles(logType), {1, MaxChunk})
  \/ /\ runs[1].pc # "idle"
     /\ runs[2].pc = "idle"
     /\ UploadFrom(2, ConcFiles(logType), {1, MaxChunk})
  \/ \E r \in RunIds : ChunkArrives(r)
  \/ \E r \in RunIds : ProcessLine(r)
  \/ \E r \in RunIds : EndChunk(r)

SpecConc == Init /\ [][NextConc]_vars

\* One call of handleFileUpload after the other: when a call has ended the
\* user may pick the next file.
NextSeq ==
  \/ SetLogType("nginx")
  \/ UploadFrom(1, ConcFiles(logType), ChunkSizes)
  \/ ChunkArrives(1)
  \/ ProcessLine(1)
  \/ EndChunk(1)

SpecSeq == Init /\ [][NextSeq]_vars

\* One call of handleFileUpload and the table controls: the user may change
\* the threshold, the search term and the sort column before, during and
\* after the run.
NextView ==
  \/ \E t \in LogTypes : SetLogType(t)
  \/ runs[1].pc = "idle" /\ UploadFrom(1, RecordFiles(logType), {MaxChunk})
  \/ ChunkArrives(1)
  \/ ProcessLine(1)
  \/ EndChunk(1)
  \/ \E v \in Thresholds : SetResponseTimeThreshold(v)
  \/ \E term \in SearchTerms : SetSearchTerm(term)
  \/ \E key \in SortKeys : handleSort(key)

SpecView == Init /\ [][NextView]_vars

\* ============================================================= properties
\* The run the single-run specification follows.
Run == runs[1]
Done == Run.pc = "done"

\* The input seen as a whole, without the chunk loop: the positions of its
\* line feeds and the text each of them terminates.
NLPositions(file) == {i \in 1..Len(file) : file[i] = "NL"}

LineStart(file, p) ==
  LET before == {q \in NLPositions(file) : q < p}
  IN IF before = {} THEN 1
     ELSE 1 + CHOOSE q \in before : \A q2 \in before : q2 <= q

LineEndingAt(file, p) ==
  LET body == SubSeq(file, LineStart(file, p), p - 1)
  IN IF body # <<>> /\ body[Len(body)] = "CR" THEN SubSeq(body, 1, Len(body) - 1)
     ELSE body

NthNL(file, k) ==
  CHOOSE p \in NLPositions(file) :
    Cardinality({q \in NLPositions(file) : q <= p}) = k

\* Every newline-terminated line of the input, in input order.
TerminatedLines(file) ==
  [k \in 1..Cardinality(NLPositions(file)) |-> LineEndingAt(file, NthNL(file, k))]

\* The text after the last line feed.
TrailingSegment(file) == SubSeq(file, LineStart(file, Len(file) + 1), Len(file))

NonBlank(line) == ~IsBlank(line)
Parses(line, type) == NonBlank(line) /\ parseLogLine(line, type) # <<>>

IsPrefix(s, t) == Len(s) <= Len(t) /\ s = SubSeq(t, 1, Len(s))

\* The locals after the loop body has run on each of the given lines in turn.
RECURSIVE FoldLines(_, _)
FoldLines(st, lines) ==
  IF lines = <<>> THEN st ELSE FoldLines(LineStep(st, Head(lines)), Tail(lines))

\* C1: when the input does not end with a line terminator, its non-empty last
\* segment is flushed as a line: once the whole file is consumed, the number
\* of requests counted is the number of parseable lines of the input, the
\* unterminated last line included.
C1_LastLineFlushed ==
  Done =>
    LET all == TerminatedLines(Run.file) \o
                 (IF TrailingSegment(Run.file) # <<>>
                  THEN <<TrailingSegment(Run.file)>> ELSE <<>>)
    IN Run.totalRequests = Len(SelectSeq(all, LAMBDA l : Parses(l, Run.type)))

\* C2: the chunk loop gives the parser every newline-terminated (non-blank)
\* line of the input exactly once and in input order, whatever the chunk
\* size: at any moment the lines given so far are a prefix of the input's
\* terminated lines, and at the end of the run they are all of them.
C2_LinesOnceInOrder ==
  LET expected == SelectSeq(TerminatedLines(Run.file), NonBlank)
  IN /\ IsPrefix(Run.handed, expected)
     /\ Done => Run.handed = expected

\* A line and a CR LF terminator have both straddled a chunk boundary.
C2_Witness ==
  /\ Done
  /\ Run.chunkSize > 1
  /\ Run.totalRequests >= 1
  /\ \E p \in NLPositions(Run.file) :
       /\ p > 2
       /\ Run.file[p - 1] = "CR"
       /\ Run.file[p - 2] \in SqlTokens \cup AccessTokens
       /\ (p - 1) % Run.chunkSize = 0

\* C3: the progress value always lies between 0 and 100.
C3_ProgressInRange == progress >= 0 /\ progress <= 100

\* The timed records the run has aggregated, with the ids the code gives
\* them (the count of parsed records at that moment), in arrival order.
RECURSIVE ItemsFrom(_, _, _)
ItemsFrom(lines, type, n) ==
  IF lines = <<>> THEN <<>>
  ELSE LET parsed == parseLogLine(Head(lines), type)
       IN IF IsBlank(Head(lines)) \/ parsed = <<>>
          THEN ItemsFrom(Tail(lines), type, n)
          ELSE IF parsed[1].responseTime = NoTime
          THEN ItemsFrom(Tail(lines), type, n + 1)
          ELSE <<[id |-> n + 1, url |-> parsed[1].url,
                  responseTime |-> parsed[1].responseTime]>> \o
               ItemsFrom(Tail(lines), type, n + 1)

TimedItems == ItemsFrom(Run.handed, Run.type, 0)

SampleKeys(samples) ==
  {[id |-> samples[i].id, url |-> samples[i].url,
    responseTime |-> samples[i].responseTime] :
     i \in 1..Len(samples)}

\* The K largest by response time, the earlier-seen first among equals.
TopKFirstSeen(items) ==
  {it \in {items[i] : i \in 1..Len(items)} :
     Cardinality({i \in 1..Len(items) :
                    \/ items[i].responseTime > it.responseTime
                    \/ items[i].responseTime = it.responseTime /\ items[i].id < it.id})
       < SlowCap}

\* C4: after all records of a run have been considered, the working set
\* holds exactly the K largest-by-response-time records observed, an
\* earlier-seen record being kept in preference to a later-seen equal one.
C4_TopKTiesFirstSeen ==
  Done => SampleKeys(Run.slowSamples) = TopKFirstSeen(TimedItems)

\* C5: the working set holds min(N, K) records after N timed records; a
\* record admitted to the full set takes the place of exactly one member; the
\* published detail list has min(N, K) rows.
C5_SizeAndReplace ==
  [][LET s == runs[1]
         t == runs'[1]
     IN /\ Len(t.slowSamples) = Min2(t.responseTimeCount, SlowCap)
        /\ (Len(s.slowSamples) = SlowCap /\ t.responseTimeCount = s.responseTimeCount + 1)
             => /\ Len(t.slowSamples) = SlowCap
                /\ Cardinality({i \in 1..SlowCap : t.slowSamples[i] # s.slowSamples[i]}) =
                     IF \E i \in 1..SlowCap : t.slowSamples[i].id = t.totalRequests
                     THEN 1 ELSE 0
        /\ t.pc = "done" => Len(logs') = Min2(t.responseTimeCount, SlowCap)
    ]_vars

\* More than K timed records arrived and a later one replaced a member.
C5_Witness ==
  /\ Done
  /\ Run.responseTimeCount > SlowCap
  /\ Len(logs) = SlowCap
  /\ \E i \in 1..Len(Run.slowSamples) : Run.slowSamples[i].id > SlowCap

RowTotal(row) == SeqSum([i \in 1..7 |-> row.b[BUCKET_KEYS[i]]])

\* C6: after any prefix of the input, the bucket counters of all rows of
\* distributionMap add up to responseTimeCount, which is the number of
\* records parsed so far that carry a response time.
C6_HistogramTotal ==
  /\ SeqSum([i \in 1..Len(Run.distributionMap) |-> RowTotal(Run.distributionMap[i])])
       = Run.responseTimeCount
  /\ Run.responseTimeCount = Len(TimedItems)

\* Timed records were counted under a degenerate 5-minute key.
C6_Witness ==
  /\ Run.responseTimeCount >= 2
  /\ \E i \in 1..Len(Run.distributionMap) :
       /\ Run.distributionMap[i].k.h = -1
       /\ RowTotal(Run.distributionMap[i]) >= 1

\* The run of the same file and format in a single chunk, as a function.
WholeFileRun(file, type) ==
  FoldLines(NewRun(file, type, Len(file)), Front(SplitLines(file)))

\* C7: the published summary and detail list (ids included) are those of the
\* single-chunk run of the same input and format, so they are the same for
\* every chunk size.
C7_ChunkSizeIndependent ==
  Done =>
    LET ref == WholeFileRun(Run.file, Run.type)
    IN /\ summaryStats = <<Summary(ref)>>
       /\ logs = SortedSamples(ref.slowSamples)

\* A run of several chunks, with lines cut by chunk boundaries, has published
\* timed records.
C7_Witness ==
  /\ Done
  /\ Run.chunkSize = 1
  /\ Len(Run.file) >= 4
  /\ Len(logs) >= 2
  /\ summaryStats[1].totalRequests >= 2

\* How many timed records of the run name the target.
TimedFor(name) ==
  Cardinality({i \in 1..Len(TimedItems) : TimedItems[i].url = name})

AggState(st) ==
  <<st.totalRequests, st.errorCount, st.ipMap, st.apiMap, st.tpsMap, st.apiPerfMap,
    st.distributionMap, st.totalResponseTime, st.responseTimeCount,
    st.slowSamples, st.minTimeInSlowSamples>>

\* C9: a line that is blank or that parseLogLine rejects leaves the whole
\* aggregation state as it was, and the published summary is the summary of
\* the input's parseable lines alone.
C9_SkippedLineChangesNothing ==
  [][LET s == runs[1]
         t == runs'[1]
     IN /\ (s.pc = "lines" /\ s.lines # <<>> /\ ~Parses(Head(s.lines), s.type))
             => AggState(t) = AggState(s)
        /\ t.pc = "done"
             => summaryStats' =
                  <<Summary(FoldLines(NewRun(t.file, t.type, t.chunkSize),
                                      SelectSeq(TerminatedLines(t.file),
                                                LAMBDA l : Parses(l, t.type))))>>
    ]_vars

\* A run that counted records has also been given lines that do not parse,
\* and its file has blank lines.
C9_Witness ==
  /\ Done
  /\ Run.totalRequests >= 1
  /\ Len(Run.handed) > Run.totalRequests
  /\ \E i \in 1..Len(TerminatedLines(Run.file)) : IsBlank(TerminatedLines(Run.file)[i])

CountOf(map, k) == IF HasKey(map, k) THEN map[IndexOfKey(map, k)].n ELSE 0

\* C10: a parsed record without a response time adds one to totalRequests,
\* to its target's count, to its rate-series key's count, to its source's
\* count unless the source is the SQL sentinel, and to the error counter when
\* its status is 400 or more; distributionMap, apiPerfMap, the response-time
\* totals and the slow-request working set stay as they were.
C10_UntimedRecord ==
  [][LET s == runs[1]
         t == runs'[1]
     IN (s.pc = "lines" /\ s.lines # <<>> /\ Parses(Head(s.lines), s.type)
           /\ parseLogLine(Head(s.lines), s.type)[1].responseTime = NoTime)
          => LET rec == parseLogLine(Head(s.lines), s.type)[1]
                 key == TpsKey(rec.rawTimestamp, s.type)
             IN /\ t.totalRequests = s.totalRequests + 1
                /\ CountOf(t.apiMap, rec.url) = CountOf(s.apiMap, rec.url) + 1
                /\ CountOf(t.tpsMap, key) = CountOf(s.tpsMap, key) + 1
                /\ IF rec.ip # "N/A"
                   THEN CountOf(t.ipMap, rec.ip) = CountOf(s.ipMap, rec.ip) + 1
                   ELSE t.ipMap = s.ipMap
                /\ t.errorCount = s.errorCount + (IF rec.status >= 400 THEN 1 ELSE 0)
                /\ t.distributionMap = s.distributionMap
                /\ t.apiPerfMap = s.apiPerfMap
                /\ t.totalResponseTime = s.totalResponseTime
                /\ t.responseTimeCount = s.responseTimeCount
                /\ t.slowSamples = s.slowSamples
                /\ t.minTimeInSlowSamples = s.minTimeInSlowSamples
    ]_vars

\* Untimed records, one of them an error, were counted in a run that also
\* has timed records.
C10_Witness ==
  /\ Done
  /\ Run.totalRequests > Run.responseTimeCount
  /\ Run.responseTimeCount >= 1
  /\ \E i \in 1..Len(Run.handed) : Run.handed[i] = <<"A4">>
  /\ \E i \in 1..Len(Run.handed) : Run.handed[i] = <<"A1">>
  /\ Run.type # "sql_logback"
  /\ Run.errorCount >= 1

\* The response times of samples are the K largest of those of items, each
\* value as often as it is among them.
HoldsTopKTimes(items, samples) ==
  \A v \in {items[i].responseTime : i \in 1..Len(items)} \cup
           {samples[i].responseTime : i \in 1..Len(samples)} :
    LET same == Cardinality({i \in 1..Len(items) : items[i].responseTime = v})
        above == Cardinality({i \in 1..Len(items) : items[i].responseTime > v})
        room == IF above < SlowCap THEN SlowCap - above ELSE 0
    IN Cardinality({i \in 1..Len(samples) : samples[i].responseTime = v}) =
         Min2(same, room)

\* The rows of the detail table in the current state.
TableRows == sortedAndFilteredLogs(logs, searchTerm, responseTimeThreshold, sortConfig)

\* C11: whatever the threshold is set to before, during or after a run, the
\* published detail list is the one the input alone determines and holds the
\* K largest response times of the run; the table shows exactly the records
\* of the list whose response time in ms is strictly greater than the
\* threshold (and that match the search term, if one is set); a change of
\* the threshold leaves logs and summaryStats as they are.
C11_ThresholdOnlyFiltersView ==
  /\ [](/\ Done =>
             /\ logs = SortedSamples(WholeFileRun(Run.file, Run.type).slowSamples)
             /\ HoldsTopKTimes(TimedItems, logs)
        /\ \A i \in 1..Len(logs) :
             (\E j \in 1..Len(TableRows) : TableRows[j] = logs[i])
               <=> /\ logs[i].responseTime > responseTimeThreshold
                   /\ MatchesSearch(logs[i], searchTerm)
        /\ Len(TableRows) =
             Cardinality({i \in 1..Len(logs) :
                            /\ logs[i].responseTime > responseTimeThreshold
                            /\ MatchesSearch(logs[i], searchTerm)}))
  /\ [][responseTimeThreshold' # responseTimeThreshold
          => logs' = logs /\ summaryStats' = summaryStats]_vars

\* After a run during which the threshold was changed, the threshold equals
\* the response time of a published record and is below that of another: the
\* table shows some records of the list and not all.
C11_Witness ==
  /\ Done
  /\ searchTerm = <<>>
  /\ responseTimeThreshold # DefaultThreshold
  /\ Run.responseTimeCount > SlowCap
  /\ \E i \in 1..Len(logs) : logs[i].responseTime = responseTimeThreshold
  /\ \E i \in 1..Len(logs) : logs[i].responseTime > responseTimeThreshold

\* The lower bounds of the seven buckets, in milliseconds, in the order of
\* BUCKET_KEYS.
LowerBounds == <<0, 10, 100, 500, 1000, 5000, 10000>>

\* C12: getRespBucket puts every non-negative response time into the one
\* bucket whose half-open interval [lower bound, next lower bound) holds it,
\* the last bucket having no upper bound: 10 ms is in 10-100ms, 1000 ms in
\* 1-5s, 10000 ms in the last bucket, and 9 ms in the first.
C12_HalfOpenBuckets ==
  probeBucket # NoBucket =>
    /\ \E k \in 1..7 :
         /\ probeBucket = BUCKET_KEYS[k]
         /\ LowerBounds[k] <= probeTime
         /\ k < 7 => probeTime < LowerBounds[k + 1]
    /\ probeTime = 9 => probeBucket = "b10ms"
    /\ probeTime = 10 => probeBucket = "b100ms"
    /\ probeTime = 1000 => probeBucket = "b5s"
    /\ probeTime = 10000 => probeBucket = "bOver10s"

\* A value exactly on a bound has been classified.
C12_Witness == probeTime = 1000 /\ probeBucket = "b5s"

\* C13: the call for an empty file (size 0) runs to its end and publishes a
\* summary with totalRequests, uniqueIps, uniqueApis, errorRate and maxTps 0,
\* avgResponseTime "N/A", and empty top-N tables, rate series, histogram and
\* detail list.
C13_EmptyInput ==
  (Run.pc # "idle" /\ Run.file = <<>>) =>
    /\ Done
    /\ ~isProcessing
    /\ logs = <<>>
    /\ Len(summaryStats) = 1
    /\ LET stats == summaryStats[1]
       IN /\ stats.totalRequests = 0
          /\ stats.uniqueIps = 0
          /\ stats.uniqueApis = 0
          /\ stats.errorRate = 0
          /\ stats.maxTps = 0
          /\ stats.avgResponseTime.na
          /\ stats.topIps = <<>>
          /\ stats.topApis = <<>>
          /\ stats.topSlowApis = <<>>
          /\ stats.tpsData = <<>>
          /\ stats.distributionStats = <<>>

\* An empty file has been uploaded and its summary is shown.
C13_Witness ==
  /\ Done
  /\ Run.file = <<>>
  /\ summaryStats # <<>>

\* C14: when two calls overlap, the aggregation state a call has built at
\* its end is the one its own file gives when processed alone, and the
\* summary and the detail list it publishes are made from that state: no
\* record of the other call is counted or listed.
C14_RunsShareNothing ==
  [][\A r \in RunIds :
       (runs[r].pc # "done" /\ runs'[r].pc = "done") =>
         /\ AggState(runs'[r]) = AggState(WholeFileRun(runs'[r].file, runs'[r].type))
         /\ summaryStats' = <<Summary(runs'[r])>>
         /\ logs' = SortedSamples(runs'[r].slowSamples)
    ]_vars

\* Call 1 has published while call 2, started before that on another file,
\* is between two chunks with records counted: summaryStats would be null had
\* call 2 started after the publication.
C14_Witness ==
  /\ runs[1].pc = "done"
  /\ runs[1].totalRequests > 0
  /\ runs[2].pc = "await"
  /\ runs[2].totalRequests > 0
  /\ runs[2].leftover # <<>>
  /\ runs[2].file # runs[1].file
  /\ summaryStats # <<>>

\* C15: a call publishes its summary once, after its input is exhausted:
\* when the call starts summaryStats and logs are cleared, they stay null
\* and empty as long as the call is in its loop, and when the loop has ended
\* (offset >= file.size) they are the summary and the sorted samples of the
\* state the call has accumulated; no other step changes them.
C15_PublishedOnceAtEnd ==
  /\ [](/\ Run.pc \in {"await", "lines"} => summaryStats = <<>> /\ logs = <<>>
        /\ Done => /\ Run.offset >= Len(Run.file)
                   /\ Run.lines = <<>>
                   /\ summaryStats = <<Summary(Run)>>
                   /\ logs = SortedSamples(Run.slowSamples))
  /\ [][(summaryStats' # summaryStats \/ logs' # logs) =>
          \/ /\ runs'[1].pc = "await"
             /\ runs'[1].offset = 0
             /\ summaryStats' = <<>>
             /\ logs' = <<>>
          \/ /\ runs'[1].pc = "done"
             /\ runs'[1] # runs[1]
       ]_vars

\* A call that read several chunks has ended and shows timed records.
C15_Witness ==
  /\ Done
  /\ Run.chunkSize < Len(Run.file)
  /\ Run.offset > Len(Run.file)
  /\ Len(logs) = SlowCap
  /\ summaryStats # <<>>

\* A timed record that might come next, with response time t.
NextItem(t) ==
  [id |-> Run.totalRequests + 1, ip |-> "N/A", rawTimestamp |-> UnknownTs,
   method |-> "SQL", url |-> "selectA", status |-> 200, responseTime |-> t]

\* C16: between two record steps, when the working set is full the tracked
\* minimum is the smallest response time in the set and a member holds it,
\* so the lookup of line 204 finds an index; while the set is not full the
\* tracked minimum still has its initial value 0 and the next step does not
\* depend on it: whatever it is, the record is appended.
C16_TrackedMinimum ==
  LET set == Run.slowSamples
      tracked == Run.minTimeInSlowSamples
  IN /\ Len(set) = SlowCap =>
          /\ \E i \in 1..Len(set) : set[i].responseTime = tracked
          /\ \A i \in 1..Len(set) : tracked <= set[i].responseTime
          /\ FirstIndex([i \in 1..Len(set) |-> HoldsMin(set[i], tracked)]) # 0
     /\ Len(set) < SlowCap =>
          /\ tracked = 0
          /\ \A t \in {5, 250}, other \in {0, 5, 250, 850} :
               SlowSamplesStep(set, other, NextItem(t)).slowSamples =
                 Append(set, NextItem(t))

\* Inside the loop the working set is full, a member has been replaced (the
\* identifiers are out of order) and the tracked minimum is no longer that
\* of the first K records.
C16_Witness ==
  /\ Run.pc = "lines"
  /\ Len(Run.slowSamples) = SlowCap
  /\ Run.responseTimeCount > SlowCap
  /\ \E i \in 1..(SlowCap - 1) : Run.slowSamples[i].id > Run.slowSamples[i + 1].id
  /\ Run.minTimeInSlowSamples > 5

\* A call that has started and has not yet left its chunk loop.
InProgress(r) == runs[r].pc \in {"await", "lines"}

\* C17: isProcessing is true whenever some call is still in its chunk loop,
\* and a call that ends does not put its result on display when a call
\* started after it exists: only the most recently started call replaces
\* the summary and the detail list.
C17_IndicatorCoversAllRuns ==
  /\ []((\E r \in RunIds : InProgress(r)) => isProcessing)
  /\ [][\A r \in RunIds :
          (InProgress(r) /\ runs'[r].pc = "done" /\ summaryStats' # summaryStats)
            => \A q \in RunIds : q > r => runs[q].pc = "idle"
       ]_vars

=============================================================================
